---- MODULE Spec2Model ----
(***************************************************************************)
(* Model of the meeting bot's turn-taking loop (src/meeting-bot/           *)
(* run_jimmy.py): the VAD segmenter, transcription with its post-filter,   *)
(* the file mailbox shared with the external agent, and sentence-chunked   *)
(* speech output.                                                          *)
(*                                                                         *)
(* Time is counted in ticks of CAPTURE_CHUNK_SEC (0.5 s): one capture of   *)
(* the frame source takes one tick.  Texts are sequences of one-character  *)
(* strings.  Python's None is the empty tuple NoneVal and a value v that   *)
(* may be None is the one-element tuple <<v>>.                             *)
(***************************************************************************)
EXTENDS Integers, Sequences, FiniteSets, TLC

\* ------------------------------------------------------------- constants

\* 1 / CAPTURE_CHUNK_SEC: ticks per second.
TicksPerSec == 2
\* "if now - last_speak_time < 8", in seconds.
SelfInterruptSec == 8
SelfInterruptWindow == SelfInterruptSec * TicksPerSec
\* "for _ in range(30)" and "await asyncio.sleep(1)".
ReplyPolls == 30
PollSleepSec == 1
PollSleep == PollSleepSec * TicksPerSec
\* MIN_SPEECH_SEC, MAX_SPEECH_SEC in whole seconds; SILENCE_TIMEOUT_SEC = 1.5 s
\* and "2.0 / CAPTURE_CHUNK_SEC" in ticks.
MinSpeechSec == 1
MaxSpeechSec == 30
MinSpeechFrames == MinSpeechSec * TicksPerSec
MaxSpeechFrames == MaxSpeechSec * TicksPerSec
SilenceTimeoutTicks == 3
MaxWaitChunks == 4

\* ---------------------------------------------------------------- bounds

\* A run is followed for MaxTime ticks after the start of the process; the
\* runs that show the self-interruption window at work, for EchoTime ticks;
\* the scripted run, for ScriptTime ticks.
MaxTime == 12
EchoTime == 17
ScriptTime == 80
\* The run of two rounds is followed for RoundsTime ticks.
RoundsTime == 28
\* The run of continuous speech is followed for LongTime ticks.
LongTime == 64
BlipTime == 68
\* Shutdown signals sent to the process during one run.
MaxSignals == 1
\* Lines the agent writes to the outbox during one run.
MaxAgentWrites == 2
\* Faults of the environment (outbox removed or unreadable, inbox unwritable).
MaxFaults == 1
\* Longest transcription and longest speak call, in ticks.
MaxTranscribeTicks == 10
MaxSpeakTicks == 1
\* Longest text, in words, a stub transcription backend answers with; the
\* run with a stub backend is followed for FilterTime ticks after the first
\* utterance.
MaxWords == 10
FilterTime == 2
\* Longest reply, in characters, among those made of SpeakAlphabet; a speak
\* call is followed for SpeakTime ticks.
MaxChars == 5
SpeakTime == 6
\* The run that follows each frame and its classification lasts VadTime
\* ticks.
VadTime == 10

\* time.time() when main starts: any value at least SelfInterruptWindow past
\* last_speak_time = 0 behaves like the real clock (seconds since 1970).
Epoch == SelfInterruptWindow

NoneVal == << >>
NoTime == -1

\* ----------------------------------------------------------------- texts

TextLights == <<"t","u","r","n"," ","o","n"," ","t","h","e"," ","l","i","g","h","t","s"," ","p","l","e","a","s","e">>
TextHello == <<"h","e","l","l","o">>
TextThanks == <<"T","h","a","n","k","s"," ","f","o","r"," ","w","a","t","c","h","i","n","g">>
TextSure == <<"S","u","r","e",","," ","t","u","r","n","i","n","g"," ","t","h","e","m"," ","o","n",".">>
TextDone == <<"D","o","n","e","."," ","L","i","g","h","t","s"," ","o","n","!">>
TextOk == <<"o","k">>
TextYes == <<"Y","e","s","?"," "," ","n","o">>
TextStale == <<"o","l","d">>

\* What a transcription backend may return for an utterance.
RawTranscripts ==
  {<< >>, TextHello, TextLights, TextThanks, <<" ">> \o TextLights \o <<" ">>}

\* The words a stub backend's answers are made of: a word that is in no
\* phrase of _filter_text's list and a word that is one.
Vocabulary ==
  {<<"g","o">>, <<"S","u","b","s","c","r","i","b","e">>}

\* The text of the agent's k-th outbox line.
ReplyTexts == <<TextSure, TextDone, TextOk, TextYes>>
ReplyText(k) == IF k <= Len(ReplyTexts) THEN ReplyTexts[k] ELSE TextOk

IsSpace(c) == c = " "
\* A faulty variant of the test below: a comma ends a sentence too.
IsTerminalOrComma(c) == c \in {".", "!", "?", ","}

\* The characters of "[.!?]" in speak's re.split pattern.
IsTerminal(c) == c \in {".", "!", "?"}

\* str.strip(): the text without its leading and trailing whitespace.
RECURSIVE LStrip(_)
LStrip(s) == IF s # << >> /\ IsSpace(Head(s)) THEN LStrip(Tail(s)) ELSE s
RECURSIVE RStrip(_)
RStrip(s) ==
  IF s # << >> /\ IsSpace(s[Len(s)]) THEN RStrip(SubSeq(s, 1, Len(s) - 1)) ELSE s
Strip(s) == RStrip(LStrip(s))

\* str.split(): the maximal runs of non-whitespace characters, in order.
RECURSIVE SplitWords(_, _)
SplitWords(s, cur) ==
  IF s = << >> THEN (IF cur = << >> THEN << >> ELSE <<cur>>)
  ELSE IF IsSpace(Head(s))
       THEN (IF cur = << >> THEN << >> ELSE <<cur>>) \o SplitWords(Tail(s), << >>)
       ELSE SplitWords(Tail(s), Append(cur, Head(s)))
Words(s) == SplitWords(s, << >>)

\* " ".join(words)
RECURSIVE JoinWords(_)
JoinWords(ws) ==
  IF ws = << >> THEN << >>
  ELSE IF Len(ws) = 1 THEN ws[1]
  ELSE ws[1] \o <<" ">> \o JoinWords(Tail(ws))

UpperCase == <<"A","B","C","D","E","F","G","H","I","J","K","L","M","N","O","P","Q","R","S","T","U","V","W","X","Y","Z">>
LowerCase == <<"a","b","c","d","e","f","g","h","i","j","k","l","m","n","o","p","q","r","s","t","u","v","w","x","y","z">>
LowerChar(c) ==
  IF \E i \in 1..Len(UpperCase) : UpperCase[i] = c
  THEN LowerCase[CHOOSE i \in 1..Len(UpperCase) : UpperCase[i] = c]
  ELSE c
\* str.lower()
Lower(s) == [i \in 1..Len(s) |-> LowerChar(s[i])]

\* "h in text": h occurs in text as a contiguous run of characters.
Contains(text, h) ==
  \E i \in 1..(Len(text) - Len(h) + 1) : SubSeq(text, i, i + Len(h) - 1) = h

Hallucinations ==
  << <<"t","h","a","n","k"," ","y","o","u"," ","f","o","r"," ","w","a","t","c","h","i","n","g">>,
     <<"t","h","a","n","k","s"," ","f","o","r"," ","w","a","t","c","h","i","n","g">>,
     <<"s","e","e"," ","y","o","u"," ","i","n"," ","t","h","e"," ","n","e","x","t">>,
     <<"s","u","b","s","c","r","i","b","e">>,
     <<"l","i","k","e"," ","a","n","d"," ","s","u","b","s","c","r","i","b","e">>,
     <<"p","l","e","a","s","e"," ","s","u","b","s","c","r","i","b","e">> >>

\* A faulty variant of the test below: texts of any length are tested.
HalfDuplicatedAnyLength(words) ==
  LET half == Len(words) \div 2
  IN JoinWords(SubSeq(words, 1, half)) = JoinWords(SubSeq(words, half + 1, half * 2))

\* _filter_text, lines 298-302: there are more than 6 words and the first
\* len(words) // 2 of them, joined, equal the next len(words) // 2, joined.
HalfDuplicated(words) ==
  LET half == Len(words) \div 2
  IN /\ Len(words) > 6
     /\ JoinWords(SubSeq(words, 1, half))
          = JoinWords(SubSeq(words, half + 1, half * 2))

\* A faulty variant of the test below: the phrases are looked for in the
\* text as it is.
HallucinatedCaseSensitive(text, words) ==
  \E k \in 1..Len(Hallucinations) :
    Contains(text, Hallucinations[k]) /\ Len(words) < 10

\* _filter_text, lines 303-310: some phrase of the list occurs in the
\* lower-cased text and there are fewer than 10 words.
Hallucinated(text, words) ==
  \E k \in 1..Len(Hallucinations) :
    Contains(Lower(text), Hallucinations[k]) /\ Len(words) < 10

\* A faulty variant of the filter below: a repeated text loses its last word.
FilterTextDroppingLast(text) ==
  IF text = << >> THEN << >>
  ELSE LET words == Words(text)
       IN IF HalfDuplicated(words)
          THEN JoinWords(SubSeq(words, 1, Len(words) - 1))
          ELSE IF Hallucinated(text, words) THEN << >> ELSE text

\* _filter_text(text), lines 294-311
FilterText(text) ==
  IF text = << >> THEN << >>
  ELSE LET words == Words(text)
       IN IF HalfDuplicated(words)
          THEN << >>
          ELSE IF Hallucinated(text, words) THEN << >> ELSE text

\* A faulty variant of the test below: one word is enough.
ActionableOneWord(text) == text # << >> /\ Len(Words(text)) >= 1

\* "not text or len(text.split()) < 2" is false: main goes on with the text.
Actionable(text) == text # << >> /\ Len(Words(text)) >= 2

\* A faulty variant of the operator below: one whitespace character is
\* skipped.
SkipOneSpace(s, i) == i + 1

\* re.split(r'(?<=[.!?])\s+', s): cut s at every run of whitespace that
\* follows '.', '!' or '?'; i is the next index, cur the piece so far.
RECURSIVE SkipSpaces(_, _)
SkipSpaces(s, i) == IF i <= Len(s) /\ IsSpace(s[i]) THEN SkipSpaces(s, i + 1) ELSE i
RECURSIVE SplitSentences(_, _, _)
SplitSentences(s, i, cur) ==
  IF i > Len(s) THEN <<cur>>
  ELSE IF IsSpace(s[i]) /\ i > 1 /\ IsTerminal(s[i - 1])
       THEN <<cur>> \o SplitSentences(s, SkipSpaces(s, i), << >>)
       ELSE SplitSentences(s, i + 1, Append(cur, s[i]))

\* The sentences speak() works through: the pieces with a non-blank content,
\* or the text itself when there is none.
Sentences(text) ==
  LET pieces == SplitSentences(Strip(text), 1, << >>)
      kept == SelectSeq(pieces, LAMBDA p : Strip(p) # << >>)
  IN IF kept = << >> THEN <<text>> ELSE kept

\* ----------------------------------------------------------------- state

VARIABLES
  pc,               \* where main is
  now,              \* time.time(), in ticks
  last_speak_time,  \* main's last_speak_time
  round_num,        \* main's round_num
  agent_resp,       \* main's agent_resp: NoneVal or <<text>>
  audio,            \* main's audio: NoneVal or <<frames of the utterance>>
  text,             \* main's text
  polls,            \* iterations of "for _ in range(30)" completed
  lines,            \* read_agent_response's lines
  audio_buffer,     \* VADCapture.audio_buffer, as its length in frames
  silence_start,    \* VADCapture.silence_start
  speech_start,     \* VADCapture.speech_start
  wait_chunks,      \* get_utterance's wait_chunks
  taken,            \* the frames captured since get_utterance was called
  frame,            \* the frame captured last and who classified it, where
                    \* the run follows that, or NoneVal
  inbox,            \* the lines of AGENT_INBOX
  inbox_ok,         \* AGENT_INBOX can be opened for appending
  outbox,           \* the lines of AGENT_OUTBOX
  outbox_file,      \* "ok", "missing" or "unreadable"
  script,           \* the frames a scripted frame source has yet to deliver
  agent_writes,     \* lines the agent has written
  written_at,       \* where main was at the agent's latest write
  faults,           \* faults of the environment so far
  utt_end,          \* when get_utterance returned the current utterance
  spoken,           \* the sentence lists speak() was called with
  sentences,        \* the sentences speak's loop has yet to take
  tts,              \* what the running speak call has printed and played
  last_event,       \* the last branch main took
  horizon,          \* the time at which the run is no longer followed
  stub,             \* the answer of a stub transcription backend, or NoneVal
  signals,          \* shutdown signals delivered to the process
  last_round        \* the round posted last: its number, the end time of its
                    \* utterance and the state of its reply wait, or NoneVal

vars == <<pc, now, last_speak_time, round_num, agent_resp, audio, text, polls,
          lines, audio_buffer, silence_start, speech_start, wait_chunks, taken,
          frame, inbox, inbox_ok, outbox, outbox_file, script, agent_writes,
          written_at, faults, utt_end, spoken, sentences, tts, last_event,
          horizon, stub, signals, last_round>>

\* What speak owns.
ttsVars == <<spoken, sentences, tts>>

\* What is fixed when a run starts.
runVars == <<horizon, stub>>

\* What main and the segmenter own.
mainVars == <<pc, now, last_speak_time, round_num, agent_resp, audio, text,
              polls, lines, audio_buffer, silence_start, speech_start,
              wait_chunks, taken, frame, inbox, script, utt_end, ttsVars, last_event,
              runVars, last_round>>

\* What the segmenter owns.
vadVars ==
  <<audio_buffer, silence_start, speech_start, wait_chunks, taken, frame>>

\* What the agent and the file system own.
envVars ==
  <<inbox_ok, outbox_file, agent_writes, written_at, faults, signals>>

\* An outbox line: a JSON object with a "text", a JSON object without one, or
\* text that json.loads rejects.
ReplyLine(t) == [kind |-> "reply", text |-> t]
NoTextLine == [kind |-> "notext", text |-> << >>]
MalformedLine == [kind |-> "malformed", text |-> << >>]

\* An inbox line written by write_to_agent; its "ts" field, the wall-clock
\* time of day as text, is read by nothing in main and is left out.
HeardLine(t, r) == [type |-> "heard", text |-> t, round |-> r]

CanPass(d) == now + d <= horizon

\* Before main runs the mailbox files hold whatever was written to them: the
\* inbox nothing or a line of an earlier run, the outbox one of outboxes.
\* frames is the script of the frame source (empty: live audio).
\* answer is what a stub transcription backend will answer (NoneVal: the
\* backend is none).
InitRun(h, frames, outboxes, answer) ==
  /\ horizon = h
  /\ stub = answer
  /\ script = frames
  /\ pc = "start"
  /\ now = Epoch
  /\ last_speak_time = 0
  /\ round_num = 0
  /\ agent_resp = NoneVal
  /\ audio = NoneVal
  /\ text = << >>
  /\ polls = 0
  /\ lines = << >>
  /\ audio_buffer = 0
  /\ silence_start = NoTime
  /\ speech_start = NoTime
  /\ wait_chunks = 0
  /\ taken = 0
  /\ frame = NoneVal
  /\ inbox \in {<< >>, <<HeardLine(TextHello, 7)>>}
  /\ inbox_ok = TRUE
  /\ outbox \in outboxes
  /\ outbox_file = "ok"
  /\ agent_writes = 0
  /\ written_at = NoneVal
  /\ faults = 0
  /\ utt_end = NoTime
  /\ spoken = << >>
  /\ sentences = << >>
  /\ tts = << >>
  /\ last_event = "init"
  /\ signals = 0
  /\ last_round = NoneVal

InitWith(h, frames, outboxes) == InitRun(h, frames, outboxes, NoneVal)

\* A frame source that delivers two short utterances, 5 s of silence apart.
TwoUtterances ==
  <<TRUE, FALSE, FALSE, FALSE, FALSE, FALSE,
    FALSE, FALSE, FALSE, FALSE, FALSE, FALSE, FALSE, FALSE, FALSE, FALSE,
    TRUE, FALSE>>

\* The scripted frame source: 2 s of silence, 3 s of speech and silence from
\* then on.
ScriptedFrames ==
  <<FALSE, FALSE, FALSE, FALSE, TRUE, TRUE, TRUE, TRUE, TRUE, TRUE, FALSE>>

\* The first round of the scripted run ends SilenceTimeoutTicks + 1 frames
\* after the script's first trailing silence; left without a reply it times
\* out ReplyPolls sleeps later.
FirstUtteranceEnd == Epoch + Len(ScriptedFrames) + SilenceTimeoutTicks + 1
FirstTimeout == FirstUtteranceEnd + ReplyPolls * PollSleep

\* main back at the top of its loop after that timeout (the state the
\* scripted run is in when no reply was ever written), with live audio from
\* here on: round 1 is in the inbox and nothing was ever spoken.
InitAfterTimeout(h) ==
  /\ horizon = FirstTimeout + h
  /\ stub = NoneVal
  /\ script = << >>
  /\ pc = "drain"
  /\ now = FirstTimeout
  /\ last_speak_time = 0
  /\ round_num = 1
  /\ agent_resp = NoneVal
  /\ audio = <<Len(ScriptedFrames)>>
  /\ text = TextLights
  /\ polls = ReplyPolls
  /\ lines = << >>
  /\ audio_buffer = Len(ScriptedFrames)
  /\ silence_start = Epoch + Len(ScriptedFrames)
  /\ speech_start = Epoch + MaxWaitChunks + 1
  /\ wait_chunks = MaxWaitChunks
  /\ taken = MaxWaitChunks + Len(ScriptedFrames)
  /\ frame = NoneVal
  /\ inbox = <<HeardLine(TextLights, 1)>>
  /\ inbox_ok = TRUE
  /\ outbox = << >>
  /\ outbox_file = "ok"
  /\ agent_writes = 0
  /\ written_at = NoneVal
  /\ faults = 0
  /\ utt_end = FirstUtteranceEnd
  /\ spoken = << >>
  /\ sentences = << >>
  /\ tts = << >>
  /\ last_event = "timeout"
  /\ signals = 0
  /\ last_round = [round |-> 1, utt |-> FirstUtteranceEnd, wait |-> "timeout"]

\* main in the scripted run with the reply t to round 1 in hand (the agent
\* wrote it before the first poll, which read it and emptied the outbox),
\* about to call speak at line 523; the run is followed for h ticks.
InitAnswered(h, t) ==
  /\ horizon = FirstUtteranceEnd + PollSleep + h
  /\ stub = NoneVal
  /\ script = <<FALSE>>
  /\ pc = "answer"
  /\ now = FirstUtteranceEnd + PollSleep
  /\ last_speak_time = 0
  /\ round_num = 1
  /\ agent_resp = <<t>>
  /\ audio = <<Len(ScriptedFrames)>>
  /\ text = TextLights
  /\ polls = 1
  /\ lines = << >>
  /\ audio_buffer = Len(ScriptedFrames)
  /\ silence_start = Epoch + Len(ScriptedFrames)
  /\ speech_start = Epoch + MaxWaitChunks + 1
  /\ wait_chunks = MaxWaitChunks
  /\ taken = MaxWaitChunks + Len(ScriptedFrames)
  /\ frame = NoneVal
  /\ inbox = <<HeardLine(TextLights, 1)>>
  /\ inbox_ok = TRUE
  /\ outbox = << >>
  /\ outbox_file = "ok"
  /\ agent_writes = 1
  /\ written_at = <<"poll", 1, 0>>
  /\ faults = 0
  /\ utt_end = FirstUtteranceEnd
  /\ spoken = << >>
  /\ sentences = << >>
  /\ tts = << >>
  /\ last_event = "polled"
  /\ signals = 0
  /\ last_round = [round |-> 1, utt |-> FirstUtteranceEnd, wait |-> "reply"]

\* A run is followed from the start of the process, or from the end of a
\* first round that went unanswered.
Init ==
  \/ InitWith(Epoch + MaxTime, << >>, {<< >>, <<ReplyLine(TextStale)>>})
  \/ InitAfterTimeout(MaxTime)

\* main, lines 463-479: both mailbox files are emptied, VADCapture() loads
\* the classifier (lines 104-111, torch.hub.load) and the loop starts.  A
\* load that raises is caught by nothing: line 469 is outside main's try.
Start(loaded) ==
  /\ pc = "start"
  /\ inbox' = << >>
  /\ outbox' = << >>
  /\ last_speak_time' = 0
  /\ round_num' = 0
  /\ pc' = IF loaded THEN "drain" ELSE "crashed"
  /\ last_event' = IF loaded THEN "started" ELSE "traceback"
  /\ UNCHANGED <<now, agent_resp, audio, text, polls, lines, vadVars, script,
                 envVars, utt_end, ttsVars, runVars, last_round>>

\* The start of a run in which the classifier loads.
Startup == Start(TRUE)

\* ------------------------------------------------------- the agent mailbox

\* "if agent_resp:" : a reply that is neither None nor the empty text.
Truthy(v) == v # NoneVal /\ v[1] # << >>

LastLine(ls) == ls[Len(ls)]

\* A faulty variant of the test below: json.loads returns for any line.
ParsesAnything(ls) == TRUE

\* json.loads(lines[-1].strip()) returns.
Parses(ls) == LastLine(ls).kind # "malformed"

\* open(AGENT_OUTBOX, "w") succeeds (it creates a missing file).
CanTruncate == outbox_file # "unreadable"

\* A faulty variant of the truncation below: the file keeps its lines.
NotTruncated(file) == file

\* open(AGENT_OUTBOX, "w").close(), line 383: the file is left empty.
Truncated(file) == << >>

\* A faulty variant of the operator below: the first line read is honoured.
TextOfFirst(ls) == IF ls[1].kind = "reply" THEN <<ls[1].text>> ELSE NoneVal

\* last.get("text", None)
TextOf(ls) ==
  IF LastLine(ls).kind = "reply" THEN <<LastLine(ls).text>> ELSE NoneVal

\* A faulty variant of the test below: one poll too many.
TimedOutLate(n) == n > ReplyPolls

\* A faulty variant of the test below: main polls until a reply comes.
TimedOutNever(n) == FALSE

\* "for _ in range(30)", line 515: the loop is over after n iterations.
TimedOut(n) == n >= ReplyPolls

\* A faulty variant of the entry below: main does not wait for the reply.
WaitSkipped == "drain"

\* "await asyncio.sleep(1)", line 516: an iteration of the reply wait starts
\* with the sleep.
WaitEntry == "sleep"

\* read_agent_response returns v to main.  From the call of line 484 main
\* goes to speak (lines 485-489) or to get_utterance.  From the call of line
\* 517 it leaves "for _ in range(30)" with a reply (line 519), sleeps again,
\* or, after the last poll, prints the timeout and starts over (lines
\* 526-527).
Return(v) ==
  /\ agent_resp' = v
  /\ IF pc \in {"drain", "drain_clear"}
     THEN /\ pc' = IF Truthy(v) THEN "speak_late" ELSE "listen"
          /\ polls' = polls
          /\ last_event' = "drained"
          /\ last_round' = last_round
     ELSE /\ polls' = polls + 1
          /\ pc' = IF Truthy(v) THEN "answer"
                   ELSE IF TimedOut(polls') THEN "drain" ELSE WaitEntry
          /\ last_event' = IF ~Truthy(v) /\ TimedOut(polls')
                           THEN "timeout" ELSE "polled"
          /\ last_round' =
               IF Truthy(v) THEN [last_round EXCEPT !.wait = "reply"]
               ELSE IF TimedOut(polls') THEN [last_round EXCEPT !.wait = "timeout"]
               ELSE last_round

\* A faulty variant of the handler below: "except OSError:".
CatchesOSErrorOnly(exc) == exc = "OSError"

\* "except:", line 385: read_agent_response catches every exception raised
\* after its os.path.exists test.
Catches(exc) == TRUE

\* A faulty variant of the handler below: "except Exception:".
MainCatchesAll(exc) == TRUE

\* "except KeyboardInterrupt:", line 529: the one exception main catches.
MainCatches(exc) == exc = "KeyboardInterrupt"

\* exc leaves main's loop: caught at line 529 main shuts down quietly,
\* uncaught it ends the process with a traceback (after "finally").
Raised(exc) ==
  /\ pc' = IF MainCatches(exc) THEN "stopped" ELSE "crashed"
  /\ last_event' = IF MainCatches(exc) THEN "shutdown" ELSE "traceback"

\* exc is raised inside read_agent_response's try block.
ReadFailed(exc) ==
  IF Catches(exc)
  THEN Return(NoneVal)
  ELSE Raised(exc) /\ UNCHANGED <<agent_resp, polls, last_round>>

\* read_agent_response, lines 375-381: returns None for a missing or empty
\* outbox, fails to open an unreadable one, and otherwise holds the lines it
\* read.
ReadOutbox ==
  /\ pc \in {"drain", "poll"}
  /\ IF outbox_file = "missing"
     THEN lines' = << >> /\ Return(NoneVal)
     ELSE IF outbox_file = "unreadable"
     THEN lines' = << >> /\ ReadFailed("OSError")
     ELSE IF outbox = << >>
     THEN lines' = << >> /\ Return(NoneVal)
     ELSE /\ lines' = outbox
          /\ pc' = IF pc = "drain" THEN "drain_clear" ELSE "poll_clear"
          /\ last_event' = "read"
          /\ UNCHANGED <<agent_resp, polls, last_round>>
  /\ UNCHANGED <<now, last_speak_time, round_num, audio, text, vadVars, inbox,
                 outbox, script, envVars, utt_end, ttsVars, runVars>>

\* read_agent_response, lines 382-386: parse the last line read, empty the
\* file as it is now, return the text.
ClearOutbox ==
  /\ pc \in {"drain_clear", "poll_clear"}
  /\ IF ~Parses(lines)
     THEN ReadFailed("ValueError") /\ UNCHANGED <<outbox, outbox_file>>
     ELSE IF ~CanTruncate
     THEN ReadFailed("OSError") /\ UNCHANGED <<outbox, outbox_file>>
     ELSE /\ outbox' = Truncated(outbox)
          /\ outbox_file' = "ok"
          /\ Return(TextOf(lines))
  /\ lines' = << >>
  /\ UNCHANGED <<now, last_speak_time, round_num, audio, text, vadVars, inbox,
                 inbox_ok, script, agent_writes, written_at, faults, utt_end,
                 ttsVars, runVars, signals>>

\* A faulty variant of the assignment below: the old time is kept.
StampKept(old, t) == old

\* "last_speak_time = time.time()", lines 489 and 525: the variable that held
\* old holds the time t at which speak returned.
Stamp(old, t) == t

\* What may become of one sentence in speak's loop, lines 323-356: it is
\* played; urlopen raises; ffmpeg exits with an error status and leaves no
\* wav file (paplay then fails as well, and os.unlink(wav_path) raises);
\* paplay exits with an error status; ffmpeg or paplay runs into its timeout.
ChunkOutcomes ==
  {"played", "synth_raised", "convert_failed", "play_failed", "play_raised"}

\* The exception the outcome raises inside the try block, if any.
ChunkException(o) ==
  IF o = "synth_raised" THEN <<"URLError">>
  ELSE IF o = "convert_failed" THEN <<"FileNotFoundError">>
  ELSE IF o = "play_raised" THEN <<"TimeoutExpired">>
  ELSE NoneVal

\* A line speak prints, a message paplay writes to the stderr it inherits,
\* or the sound of sentence s in the sink.
TtsEvent(e, s) == [ev |-> e, chunk |-> s]

\* What one turn of the loop prints and plays up to the end of its try
\* block or to the first exception raised in it, lines 323-354.
ChunkEvents(s, o) ==
  IF o = "played"
  THEN <<TtsEvent("generating", s), TtsEvent("sound", s), TtsEvent("played", s)>>
  ELSE IF o \in {"convert_failed", "play_failed"}
  THEN <<TtsEvent("generating", s), TtsEvent("paplay_stderr", s),
         TtsEvent("played", s)>>
  ELSE <<TtsEvent("generating", s)>>

\* A faulty variant of the handler below: "except urllib.error.URLError".
SpeakCatchesURLErrorOnly(exc) == exc = "URLError"

\* "except Exception as e", line 355: every exception a sentence raises is
\* caught and printed.
SpeakCatches(exc) == TRUE

\* A faulty variant of the loop order below: the last sentence first.
LoopOrderReversed(ss) == [i \in 1..Len(ss) |-> ss[Len(ss) + 1 - i]]

\* "for sentence in sentences", line 322: the order in which the loop takes
\* the sentences.
LoopOrder(ss) == ss

\* speak(agent_resp, transcript) is called, line 487 (a reply found at the
\* top of the loop) or 523 (the reply of the round): lines 317-320 split the
\* text.
SpeakCall ==
  /\ pc \in {"speak_late", "answer"}
  /\ sentences = << >>
  /\ sentences' = LoopOrder(Sentences(agent_resp[1]))
  /\ tts' = << >>
  /\ last_event' = "speaking"
  /\ UNCHANGED <<pc, now, last_speak_time, round_num, agent_resp, audio, text,
                 polls, lines, vadVars, inbox, outbox, script, envVars,
                 utt_end, spoken, runVars, last_round>>

\* One turn of speak's loop, lines 322-356, taking d ticks, with outcome o;
\* after the last turn speak returns and main sets last_speak_time, lines
\* 489 and 525.  An exception the handler of line 355 does not catch leaves
\* speak and reaches main.
SpeakSentence(o, d) ==
  /\ pc \in {"speak_late", "answer"}
  /\ sentences # << >>
  /\ CanPass(d)
  /\ now' = now + d
  /\ LET s == Head(sentences)
         exc == ChunkException(o)
     IN IF exc # NoneVal /\ ~SpeakCatches(exc[1])
        THEN /\ tts' = tts \o ChunkEvents(s, o)
             /\ sentences' = << >>
             /\ Raised(exc[1])
             /\ UNCHANGED <<spoken, last_speak_time>>
        ELSE /\ tts' = tts \o ChunkEvents(s, o)
                         \o (IF exc # NoneVal THEN <<TtsEvent("error", s)>> ELSE << >>)
             /\ sentences' = Tail(sentences)
             /\ IF sentences' = << >>
                THEN /\ spoken' = Append(spoken, Sentences(agent_resp[1]))
                     /\ last_speak_time' = Stamp(last_speak_time, now')
                     /\ pc' = IF pc = "speak_late" THEN "listen" ELSE "drain"
                     /\ last_event' = "spoke"
                ELSE /\ last_event' = "sentence"
                     /\ UNCHANGED <<pc, spoken, last_speak_time>>
  /\ UNCHANGED <<round_num, agent_resp, audio, text, polls, lines, vadVars,
                 inbox, outbox, script, envVars, utt_end, runVars, last_round>>

\* main's steps inside speak, every sentence being played.
Speak(d) == SpeakCall \/ SpeakSentence("played", d)

\* ---------------------------------------------- speak_xtts of speak.py

\* speak_xtts, lines 95-96: the pieces with a non-blank content; there is
\* no chunk at all when there is none.
XttsSentences(t) ==
  SelectSeq(SplitSentences(Strip(t), 1, << >>), LAMBDA p : Strip(p) # << >>)

\* What may become of one sentence in speak_xtts's loop: it is played, or
\* _generate_and_play, ffmpeg's timeout or inject_audio_to_meeting raises.
XttsOutcomes == {"played", "raised"}

\* A faulty variant of the test below: the loop has a handler that
\* swallows the exception.
XttsPropagatesNothing(o) == FALSE

\* speak_xtts, lines 98-111: "try: ... finally:" has no except clause, so
\* what a sentence raises leaves speak_xtts.
XttsPropagates(o) == o = "raised"

\* speak(text) of speak.py is called (line 203 calls speak_xtts): lines
\* 93-96 split the text.
XttsCall ==
  /\ pc = "xtts_call"
  /\ sentences' = XttsSentences(text)
  /\ tts' = << >>
  /\ pc' = IF sentences' = << >> THEN "xtts_returned" ELSE "xtts_loop"
  /\ last_event' = "speaking"
  /\ UNCHANGED <<now, last_speak_time, round_num, agent_resp, audio, text,
                 polls, lines, vadVars, inbox, outbox, script, envVars,
                 utt_end, spoken, runVars, last_round>>

\* One turn of speak_xtts's loop, lines 97-111, taking d ticks, with
\* outcome o; after the last turn speak_xtts returns None (line 112).
XttsSentence(o, d) ==
  /\ pc = "xtts_loop"
  /\ CanPass(d)
  /\ now' = now + d
  /\ LET s == Head(sentences)
     IN IF XttsPropagates(o)
        THEN /\ tts' = Append(tts, TtsEvent("generating", s))
             /\ pc' = "xtts_raised"
             /\ last_event' = "traceback"
        ELSE /\ tts' = tts \o (IF o = "played" THEN ChunkEvents(s, "played")
                                ELSE <<TtsEvent("generating", s)>>)
             /\ pc' = IF Tail(sentences) = << >> THEN "xtts_returned" ELSE pc
             /\ last_event' = IF Tail(sentences) = << >> THEN "spoke" ELSE "sentence"
  /\ sentences' = Tail(sentences)
  /\ UNCHANGED <<last_speak_time, round_num, agent_resp, audio, text, polls,
                 lines, vadVars, inbox, outbox, script, envVars, utt_end,
                 spoken, runVars, last_round>>

\* -------------------------------------------------------- the segmenter

\* get_utterance, lines 164-168: the buffer and the marks are reset.
BeginUtterance ==
  /\ pc = "listen"
  /\ audio_buffer' = 0
  /\ silence_start' = NoTime
  /\ speech_start' = NoTime
  /\ wait_chunks' = 0
  /\ taken' = 0
  /\ pc' = "capture"
  /\ last_event' = "listening"
  /\ UNCHANGED <<now, last_speak_time, round_num, agent_resp, audio, text,
                 polls, lines, frame, inbox, outbox, script, envVars, utt_end, ttsVars,
                 runVars, last_round>>

\* A faulty variant of the test below: any silence that has begun is enough.
SilenceExpiredEarly(t) == t - silence_start > 0

\* "time.time() - self.silence_start > SILENCE_TIMEOUT_SEC" at time t.
SilenceExpired(t) == t - silence_start > SilenceTimeoutTicks

\* A faulty variant of the test below: the wait ends one frame early.
OnsetExpiredAtLimit(n) == n >= MaxWaitChunks

\* "if wait_chunks > max_wait", line 182.
OnsetExpired(n) == n > MaxWaitChunks

\* get_utterance returns r (NoneVal or <<frames>>) to main, lines 492-494.
Utterance(r) ==
  /\ audio' = r
  /\ IF r = NoneVal
     THEN pc' = "drain" /\ utt_end' = utt_end /\ last_event' = "no_speech"
     ELSE pc' = "transcribe" /\ utt_end' = now' /\ last_event' = "utterance"

\* get_utterance goes round its loop once more.
KeepCapturing ==
  /\ pc' = pc
  /\ last_event' = "frame"
  /\ UNCHANGED <<audio, utt_end>>

\* The verdicts has_speech may give on the next frame: any for live audio,
\* the next entry for a scripted frame source.
FrameChoices == IF script = << >> THEN BOOLEAN ELSE {Head(script)}

\* A faulty variant of the test below: the buffer may grow one frame past
\* the limit.
BufferFullLate(buf) == buf > MaxSpeechFrames

\* "if duration >= MAX_SPEECH_SEC", line 207.
BufferFull(buf) == buf >= MaxSpeechFrames

\* A faulty variant of the test below: a buffer of any length is returned.
LongEnoughAlways(buf) == TRUE

\* "if duration >= MIN_SPEECH_SEC", line 197.
LongEnough(buf) == buf >= MinSpeechFrames

\* A faulty variant of the reset below: the buffer is kept.
DiscardedKept(buf) == buf

\* "self.audio_buffer = np.array([], dtype=np.float32)", line 201.
Discarded(buf) == 0

\* One turn of get_utterance's loop, lines 170-209: a frame of n frame
\* lengths is captured (one tick) and classified; speech is has_speech's
\* verdict on it.  A scripted source goes on delivering its last frame.
SegmentFrame(speech, n) ==
  /\ pc = "capture"
  /\ CanPass(1)
  /\ now' = now + 1
  /\ taken' = taken + 1
  /\ script' = IF Len(script) > 1 THEN Tail(script) ELSE script
  /\ IF speech_start = NoTime
     THEN IF speech
          THEN /\ speech_start' = now'
               /\ audio_buffer' = audio_buffer + n
               /\ silence_start' = NoTime
               /\ wait_chunks' = wait_chunks
               /\ KeepCapturing
          ELSE /\ wait_chunks' = wait_chunks + 1
               /\ UNCHANGED <<speech_start, audio_buffer, silence_start>>
               /\ IF OnsetExpired(wait_chunks')
                  THEN Utterance(NoneVal)
                  ELSE KeepCapturing
     ELSE LET buf == audio_buffer + n
              expired == /\ ~speech
                         /\ silence_start # NoTime
                         /\ SilenceExpired(now')
          IN IF expired /\ LongEnough(buf)
             THEN \* the utterance is complete
                  /\ audio_buffer' = buf
                  /\ UNCHANGED <<silence_start, speech_start, wait_chunks>>
                  /\ Utterance(<<buf>>)
             ELSE IF expired
             THEN \* too short: reset; the length check below sees 0 frames
                  /\ audio_buffer' = Discarded(audio_buffer)
                  /\ speech_start' = NoTime
                  /\ silence_start' = NoTime
                  /\ wait_chunks' = 0
                  /\ KeepCapturing
             ELSE /\ audio_buffer' = buf
                  /\ silence_start' = IF speech THEN NoTime
                                      ELSE IF silence_start = NoTime THEN now'
                                      ELSE silence_start
                  /\ UNCHANGED <<speech_start, wait_chunks>>
                  /\ IF BufferFull(buf)
                     THEN Utterance(<<buf>>)
                     ELSE KeepCapturing
  /\ UNCHANGED <<last_speak_time, round_num, agent_resp, text, polls, lines,
                 inbox, outbox, envVars, ttsVars, runVars, last_round>>

\* That turn with a frame of the full length.
Segment(speech) == SegmentFrame(speech, 1)

\* A turn of the loop in a run that follows has_speech's verdicts only.
CaptureFrame(speech) == Segment(speech) /\ UNCHANGED frame

\* What capture_chunk may get, lines 118-138: a frame with speech in it, a
\* frame with a noise that is no speech, a quiet frame, a file without a
\* single sample (sf.read returns an empty array), or an exception from
\* ffmpeg or from reading its file.
CaptureOutcomes == {"speech", "noise", "quiet", "empty", "failed"}

\* The length of capture_chunk's result, in frames.
FrameLen(got) == IF got = "empty" THEN 0 ELSE 1

\* A faulty variant of the operator below: the failed capture is repeated
\* until it yields what is there to hear, speech.
CaptureChunkRetrying(got) == IF got = "failed" THEN "speech" ELSE got

\* capture_chunk's result: the frame read, or after "except Exception" the
\* frame of np.zeros(int(SAMPLE_RATE * CAPTURE_CHUNK_SEC)), lines 131-133.
CaptureChunk(got) == IF got = "failed" THEN "zeros" ELSE got

\* "max_prob > VAD_THRESHOLD", line 152: the classifier finds speech in a
\* frame that holds speech, and in no other.
Silero(f) == f = "speech"

\* "rms > 0.005", line 156: the frame is loud; the RMS of zeros is 0.
RmsAboveThreshold(f) == f \in {"speech", "noise"}

\* has_speech, lines 140-156: the classifier's verdict, or the RMS test
\* when anything in the try block raised.
HasSpeech(f, works) == IF works THEN Silero(f) ELSE RmsAboveThreshold(f)

\* A turn of the loop, lines 171-172 and on: capture_chunk gets got, the
\* classifier works on the frame or raises.
CaptureClassify(got, works) ==
  /\ SegmentFrame(HasSpeech(CaptureChunk(got), works), FrameLen(got))
  /\ frame' = <<[samples |-> CaptureChunk(got),
                 len |-> FrameLen(got),
                 captured |-> got # "failed",
                 by |-> IF works THEN "silero" ELSE "rms"]>>

\* ---------------------------------------------------- transcribe and post

\* What the remote backend may do with an utterance: answer with a text, or
\* fail (no connection, no answer within the timeout, an answer that is not
\* the JSON expected).  What the local model may do: produce a text or fail.
Ok(t) == <<"ok", t>>
Failure(kind) == <<"error", kind>>
NotCalled == <<"none">>
PrimaryOutcomes ==
  {Ok(t) : t \in RawTranscripts}
    \cup {Failure(k) : k \in {"network", "timeout", "malformed"}}
SecondaryOutcomes == {Ok(t) : t \in RawTranscripts} \cup {Failure("failed")}
TranscribeTicks == {0, MaxTranscribeTicks}

\* A faulty variant of the fallback below: its text is returned as it is.
TranscribeLocalUnfiltered(s) == IF s[1] = "ok" THEN Strip(s[2]) ELSE << >>

\* transcribe_local, lines 280-291: the filtered text of the local model, or
\* "" when it raised.
TranscribeLocal(s) == IF s[1] = "ok" THEN FilterText(Strip(s[2])) ELSE << >>

\* transcribe_remote, lines 243-277: the filtered text of the remote backend,
\* or transcribe_local's result when anything in the try block raised.
TranscribeRemote(p, s) ==
  IF p[1] = "ok" THEN FilterText(Strip(p[2])) ELSE TranscribeLocal(s)

\* main, lines 496-502: transcribe_remote takes d ticks, the backends doing p
\* and s; a text that is empty or has fewer than 2 words ends the iteration.
Transcribe(p, s, d) ==
  /\ pc = "transcribe"
  /\ CanPass(d)
  /\ now' = now + d
  /\ text' = TranscribeRemote(p, s)
  /\ pc' = IF Actionable(text') THEN "post" ELSE "drain"
  /\ last_event' = IF p[1] = "ok" THEN "transcribed"
                   ELSE IF s[1] = "ok" THEN "fell_back" ELSE "stt_failed"
  /\ UNCHANGED <<last_speak_time, round_num, agent_resp, audio, polls, lines,
                 vadVars, inbox, outbox, script, envVars, utt_end, ttsVars,
                 runVars, last_round>>

\* A faulty variant of the check below: the utterance is never dropped.
SelfInterruptingNever == FALSE

\* "if now - last_speak_time < 8", line 508.
SelfInterrupting == now - last_speak_time < SelfInterruptWindow

\* write_to_agent, lines 359-369: open(AGENT_INBOX, "a") succeeds.
InboxWritable == inbox_ok

\* A faulty variant of the write below: the file is opened with mode "w".
WriteToAgentTruncating(file, t, r) == <<HeardLine(t, r)>>

\* write_to_agent, lines 359-369: file after the line for text t of round r
\* was written to it in append mode.
WriteToAgent(file, t, r) == Append(file, HeardLine(t, r))

\* A faulty variant of the increment below: the counter stays.
NextRoundSame(r) == r

\* "round_num += 1", line 504.
NextRound(r) == r + 1

\* main, lines 504-512: the round counter is incremented, the utterance is
\* dropped if we spoke less than 8 s ago, and otherwise written to the inbox;
\* write_to_agent catches nothing, so a failed open propagates to main.
Post ==
  /\ pc = "post"
  /\ round_num' = NextRound(round_num)
  /\ IF SelfInterrupting
     THEN /\ pc' = "drain"
          /\ last_event' = "suppressed"
          /\ UNCHANGED <<inbox, polls, last_round>>
     ELSE IF InboxWritable
     THEN /\ inbox' = WriteToAgent(inbox, text, round_num')
          /\ polls' = 0
          /\ pc' = WaitEntry
          /\ last_event' = "posted"
          /\ last_round' = [round |-> round_num', utt |-> utt_end, wait |-> "open"]
     ELSE /\ Raised("OSError")
          /\ UNCHANGED <<inbox, polls, last_round>>
  /\ UNCHANGED <<now, last_speak_time, agent_resp, audio, text, lines,
                 vadVars, outbox, script, envVars, utt_end, ttsVars, runVars>>

\* main, line 516: "await asyncio.sleep(1)" of the reply wait.
Sleep ==
  /\ pc = "sleep"
  /\ CanPass(PollSleep)
  /\ now' = now + PollSleep
  /\ pc' = "poll"
  /\ last_event' = "slept"
  /\ UNCHANGED <<last_speak_time, round_num, agent_resp, audio, text, polls,
                 lines, vadVars, inbox, outbox, script, envVars, utt_end,
                 ttsVars, runVars, last_round>>

\* ------------------------------------------------------- the environment

\* main is about to open the outbox, to read it or to empty it.
AtOutbox == pc \in {"drain", "drain_clear", "poll", "poll_clear"}

\* The agent appends its next line to the outbox (creating a missing file).
\* The agent runs beside main all the time; main sees the outbox only when it
\* opens it, so a write is taken right before one of main's accesses.
AgentWrite(kind) ==
  /\ AtOutbox
  /\ agent_writes < MaxAgentWrites
  /\ agent_writes' = agent_writes + 1
  /\ written_at' = <<pc, round_num, polls>>
  /\ LET line == IF kind = "reply" THEN ReplyLine(ReplyText(agent_writes'))
                 ELSE IF kind = "notext" THEN NoTextLine ELSE MalformedLine
     IN outbox' = Append(outbox, line)
  /\ outbox_file' = IF outbox_file = "missing" THEN "ok" ELSE outbox_file
  /\ UNCHANGED <<mainVars, inbox_ok, faults, signals>>

\* The outbox file is removed.
RemoveOutbox ==
  /\ AtOutbox
  /\ faults < MaxFaults
  /\ outbox_file = "ok"
  /\ faults' = faults + 1
  /\ outbox_file' = "missing"
  /\ outbox' = << >>
  /\ UNCHANGED <<mainVars, inbox_ok, agent_writes, written_at, signals>>

\* The outbox file loses the permissions main needs to open it.
LockOutbox ==
  /\ AtOutbox
  /\ faults < MaxFaults
  /\ outbox_file = "ok"
  /\ faults' = faults + 1
  /\ outbox_file' = "unreadable"
  /\ UNCHANGED <<mainVars, inbox_ok, outbox, agent_writes, written_at, signals>>

\* The inbox can no longer be opened for appending.
LockInbox ==
  /\ pc = "post"
  /\ faults < MaxFaults
  /\ inbox_ok
  /\ faults' = faults + 1
  /\ inbox_ok' = FALSE
  /\ UNCHANGED <<mainVars, outbox, outbox_file, agent_writes, written_at, signals>>

\* SIGINT reaches the process while main runs its loop.  Where the signal
\* raises KeyboardInterrupt at the point main has reached, the exception is
\* caught at line 529 and main shuts down, unless it is raised inside
\* read_agent_response's try block (caught at line 385, the call returns
\* None) or inside the "try: os.unlink(path) / except: pass" of
\* capture_chunk (lines 135-138, lost): then main goes on.  Where the signal
\* cancels main's task instead, main is stopped at its next await, the sleep
\* of the reply wait.
Interrupt(lost) ==
  /\ pc \notin {"start", "crashed", "stopped"}
  /\ signals < MaxSignals
  /\ signals' = signals + 1
  /\ lost => pc = "capture"
  /\ IF pc \in {"drain_clear", "poll_clear"}
     THEN ReadFailed("KeyboardInterrupt") /\ lines' = << >>
     ELSE IF lost
     THEN UNCHANGED <<pc, last_event, agent_resp, polls, last_round, lines>>
     ELSE /\ Raised("KeyboardInterrupt")
          /\ UNCHANGED <<agent_resp, polls, last_round, lines>>
  /\ UNCHANGED <<now, last_speak_time, round_num, audio, text, vadVars, inbox,
                 inbox_ok, outbox, outbox_file, script, agent_writes,
                 written_at, faults, utt_end, ttsVars, runVars>>

\* -------------------------------------------------------- specifications

\* main's own steps.
MainStep ==
  \/ Startup
  \/ ReadOutbox
  \/ ClearOutbox
  \/ \E d \in 1..MaxSpeakTicks : Speak(d)
  \/ BeginUtterance
  \/ \E speech \in FrameChoices : CaptureFrame(speech)
  \/ \E raw \in RawTranscripts, d \in TranscribeTicks :
       Transcribe(Ok(raw), NotCalled, d)
  \/ Post
  \/ Sleep

Next ==
  \/ MainStep
  \/ \E kind \in {"reply", "notext", "malformed"} : AgentWrite(kind)
  \/ RemoveOutbox
  \/ LockOutbox
  \/ LockInbox

Spec == Init /\ [][Next]_vars

\* Longer runs with an agent that writes well-formed replies and a sound file
\* system: a reply is spoken and the self-interruption window runs out.
InitEcho ==
  InitWith(Epoch + EchoTime, << >>, {<< >>, <<ReplyLine(TextStale)>>})

NextEcho ==
  \/ MainStep
  \/ AgentWrite("reply")

SpecEcho == InitEcho /\ [][NextEcho]_vars

\* The scripted run: the frame source delivers ScriptedFrames, the
\* transcription backend answers at once with "turn on the lights please",
\* the outbox holds the reply "Sure, turning them on." before main starts,
\* and the agent may write that reply once more, at any moment.
InitScript ==
  InitWith(Epoch + ScriptTime, ScriptedFrames, {<<ReplyLine(TextSure)>>})

NextScript ==
  \/ Startup
  \/ ReadOutbox
  \/ ClearOutbox
  \/ \E d \in 1..MaxSpeakTicks : Speak(d)
  \/ BeginUtterance
  \/ \E speech \in FrameChoices : CaptureFrame(speech)
  \/ Transcribe(Ok(TextLights), NotCalled, 0)
  \/ Post
  \/ Sleep
  \/ agent_writes = 0 /\ AgentWrite("reply")

SpecScript == InitScript /\ [][NextScript]_vars

\* The scripted run of a main that keeps running: each of its steps (a
\* capture, a call of a backend, a one-second sleep, a file operation) ends,
\* so main always takes its next step.
ScriptMain ==
  \/ Startup
  \/ ReadOutbox
  \/ ClearOutbox
  \/ \E d \in 1..MaxSpeakTicks : Speak(d)
  \/ BeginUtterance
  \/ \E speech \in FrameChoices : CaptureFrame(speech)
  \/ Transcribe(Ok(TextLights), NotCalled, 0)
  \/ Post
  \/ Sleep

SpecWait == InitScript /\ [][NextScript]_vars /\ WF_vars(ScriptMain)

\* Runs in which one round follows another: the frame source delivers
\* TwoUtterances, the backend answers at once, the agent writes replies.
InitRounds == InitWith(Epoch + RoundsTime, TwoUtterances, {<< >>})

NextRounds ==
  \/ ScriptMain
  \/ AgentWrite("reply")

SpecRounds == InitRounds /\ [][NextRounds]_vars

\* Runs in which the process is sent shutdown signals.
NextSignal ==
  \/ MainStep
  \/ AgentWrite("reply")
  \/ \E lost \in BOOLEAN : Interrupt(lost)

SpecSignal == InitEcho /\ [][NextSignal]_vars

\* The scripted run with backends that do whatever they may do.
NextStt ==
  \/ Startup
  \/ ReadOutbox
  \/ ClearOutbox
  \/ \E d \in 1..MaxSpeakTicks : Speak(d)
  \/ BeginUtterance
  \/ \E speech \in FrameChoices : CaptureFrame(speech)
  \/ \E p \in PrimaryOutcomes, s \in SecondaryOutcomes, d \in TranscribeTicks :
       Transcribe(p, s, d)
  \/ Post
  \/ Sleep
  \/ agent_writes = 0 /\ AgentWrite("reply")

SpecStt == InitScript /\ [][NextStt]_vars

\* The answers of a stub backend: the texts of at most MaxWords words of
\* Vocabulary, a space apart, and the texts of RawTranscripts.
FilterInputs ==
  {JoinWords(ws) : ws \in UNION {[1..n -> Vocabulary] : n \in 0..MaxWords}}
    \cup RawTranscripts

\* The scripted run with a stub backend that answers at once with a text of
\* FilterInputs, followed until the answer was filtered and acted upon.
InitFilter ==
  \E t \in FilterInputs :
    InitRun(FirstUtteranceEnd + FilterTime, ScriptedFrames, {<< >>}, <<t>>)

NextFilter ==
  \/ Startup
  \/ ReadOutbox
  \/ BeginUtterance
  \/ \E speech \in FrameChoices : CaptureFrame(speech)
  \/ Transcribe(Ok(stub[1]), NotCalled, 0)
  \/ Post
  \/ Sleep

SpecFilter == InitFilter /\ [][NextFilter]_vars

\* The replies speak is called with: the texts of at most MaxChars
\* characters of SpeakAlphabet, the empty one left out ("if agent_resp:",
\* line 520), and the replies of ReplyTexts.
SpeakAlphabet == {"a", ".", "!", " "}
SpeakInputs ==
  (UNION {[1..n -> SpeakAlphabet] : n \in 1..MaxChars})
    \cup {ReplyTexts[k] : k \in 1..Len(ReplyTexts)}

\* speak called with a reply of SpeakInputs, every sentence ending in any
\* of ChunkOutcomes.
InitSpeak == \E t \in SpeakInputs : InitAnswered(SpeakTime, t)

NextSpeak ==
  \/ SpeakCall
  \/ \E o \in ChunkOutcomes, d \in 1..MaxSpeakTicks : SpeakSentence(o, d)

SpecSpeak == InitSpeak /\ [][NextSpeak]_vars

\* speak of speak.py called with the text t (config.TTS_ENGINE is "xtts"
\* and config.XTTS_SENTENCE_CHUNK is True); nothing of run_jimmy.py runs.
InitXtts(h, t) ==
  /\ horizon = Epoch + h
  /\ stub = NoneVal
  /\ script = << >>
  /\ pc = "xtts_call"
  /\ now = Epoch
  /\ last_speak_time = 0
  /\ round_num = 0
  /\ agent_resp = NoneVal
  /\ audio = NoneVal
  /\ text = t
  /\ polls = 0
  /\ lines = << >>
  /\ audio_buffer = 0
  /\ silence_start = NoTime
  /\ speech_start = NoTime
  /\ wait_chunks = 0
  /\ taken = 0
  /\ frame = NoneVal
  /\ inbox = << >>
  /\ inbox_ok = TRUE
  /\ outbox = << >>
  /\ outbox_file = "ok"
  /\ agent_writes = 0
  /\ written_at = NoneVal
  /\ faults = 0
  /\ utt_end = NoTime
  /\ spoken = << >>
  /\ sentences = << >>
  /\ tts = << >>
  /\ last_event = "init"
  /\ signals = 0
  /\ last_round = NoneVal

\* A reply is spoken by either program: by run_jimmy.py's speak or by
\* speak.py's speak_xtts.
InitEither ==
  \E t \in SpeakInputs : InitAnswered(SpeakTime, t) \/ InitXtts(SpeakTime, t)

NextEither ==
  \/ SpeakCall
  \/ \E o \in ChunkOutcomes, d \in 1..MaxSpeakTicks : SpeakSentence(o, d)
  \/ XttsCall
  \/ \E o \in XttsOutcomes, d \in 1..MaxSpeakTicks : XttsSentence(o, d)

SpecEither == InitEither /\ [][NextEither]_vars

\* Runs on live audio that follow each frame: what capture_chunk got and
\* whether the classifier worked on it; the classifier may fail to load when
\* the process starts.  The backend answers at once.
InitVad == InitWith(Epoch + VadTime, << >>, {<< >>})

NextVad ==
  \/ \E loaded \in BOOLEAN : Start(loaded)
  \/ ReadOutbox
  \/ BeginUtterance
  \/ \E got \in CaptureOutcomes, works \in BOOLEAN : CaptureClassify(got, works)
  \/ Transcribe(Ok(TextLights), NotCalled, 0)
  \/ Post
  \/ Sleep

SpecVad == InitVad /\ [][NextVad]_vars

\* Long runs on live audio: each frame has speech in it or is quiet, the
\* classifier works and the backend answers at once.
InitCut == InitWith(Epoch + LongTime, << >>, {<< >>})

NextCut ==
  \/ Startup
  \/ ReadOutbox
  \/ BeginUtterance
  \/ \E got \in {"speech", "quiet"} : CaptureClassify(got, TRUE)
  \/ Transcribe(Ok(TextLights), NotCalled, 0)
  \/ Post
  \/ Sleep

SpecCut == InitCut /\ [][NextCut]_vars

\* Long runs on a frame source that breaks off after every frame of
\* speech: once a frame with speech was taken, files without a single
\* sample follow until get_utterance has thrown its buffer away.  No call
\* returns an utterance.
BlipChoices == IF speech_start = NoTime THEN {"speech", "empty"} ELSE {"empty"}

InitBlip == InitWith(Epoch + BlipTime, << >>, {<< >>})

NextBlip ==
  \/ Startup
  \/ ReadOutbox
  \/ BeginUtterance
  \/ \E got \in BlipChoices : CaptureClassify(got, TRUE)

SpecBlip == InitBlip /\ [][NextBlip]_vars

\* Runs of the whole loop with an agent that writes well-formed replies, in
\* which every sentence of a reply may end in any of ChunkOutcomes.
NextStamp ==
  \/ MainStep
  \/ AgentWrite("reply")
  \/ \E o \in ChunkOutcomes, d \in 1..MaxSpeakTicks : SpeakSentence(o, d)

SpecStamp == InitEcho /\ [][NextStamp]_vars

\* Runs with a speaker who never pauses: every frame is speech.
InitLong == InitWith(Epoch + LongTime, <<TRUE>>, {<< >>})

SpecLong == InitLong /\ [][NextScript]_vars

\* ------------------------------------------------------------ properties

\* main appends a line to the inbox in this step.
Posts == pc = "post" /\ Len(inbox') = Len(inbox) + 1

\* C1 (as stated): an utterance that the segmenter finalized less than
\* SelfInterruptWindow after last_speak_time is never posted to the inbox,
\* however long its transcription took.
C1_EndTimeSuppression ==
  [][Posts => utt_end - last_speak_time >= SelfInterruptWindow]_vars

\* C2: whenever main appends to the inbox, the time of the check minus
\* last_speak_time is at least SelfInterruptWindow; when it is less, the
\* utterance is discarded, main is back at the top of its loop and the inbox
\* is as it was.
C2_StepFourGuard ==
  [][/\ Posts => now - last_speak_time >= SelfInterruptWindow
     /\ (pc = "post" /\ pc' # "post"
           /\ now - last_speak_time < SelfInterruptWindow)
          => inbox' = inbox /\ pc' = "drain" /\ last_event' = "suppressed"]_vars

\* An utterance heard right after a reply was spoken has been discarded.
C2_Witness ==
  /\ last_event = "suppressed"
  /\ spoken # << >>
  /\ now - last_speak_time < SelfInterruptWindow
  /\ utt_end > last_speak_time

\* The agent wrote its reply after round 1 was posted and before main's first
\* poll of that round read the outbox.
RepliedBeforeFirstPoll == written_at = <<"poll", 1, 0>>

\* C3 (as stated): in the scripted run, when the agent writes nothing beyond
\* the reply that was in the outbox before main started, the first poll after
\* the post finds that reply and it is spoken as one chunk.
C3_PrewrittenReplyDetected ==
  (agent_writes = 0 /\ round_num = 1 /\ polls >= 1)
    => \/ pc = "answer" /\ agent_resp = <<TextSure>>
       \/ spoken = << <<TextSure>> >>

\* C3 (amended): in the scripted run, when the agent writes the reply after
\* the post and before the first poll reads the outbox, main has emitted one
\* utterance (all of the speech and the silence that ended it), transcribed
\* once, posted exactly one inbox line with round 1, found the reply at its
\* first poll and called speak once, with the one chunk "Sure, turning them
\* on.".
C3_ScriptedRound ==
  RepliedBeforeFirstPoll =>
    /\ round_num = 1
    /\ text = TextLights
    /\ inbox = <<[type |-> "heard", text |-> TextLights, round |-> 1]>>
    /\ pc \in {"poll", "poll_clear"} => polls = 0 /\ spoken = << >>
    /\ pc \notin {"poll", "poll_clear"} => polls = 1
    /\ pc \notin {"poll", "poll_clear", "answer"} => spoken = << <<TextSure>> >>
    /\ (pc \in {"poll", "poll_clear", "answer"} \/ last_event = "spoke")
         => /\ audio # NoneVal
            /\ audio[1] >= Cardinality({i \in 1..Len(ScriptedFrames) : ScriptedFrames[i]})
    /\ (pc = "answer" \/ last_event = "spoke") => agent_resp = <<TextSure>>

\* The reply of the scripted round has been spoken.
C3_Witness ==
  /\ RepliedBeforeFirstPoll
  /\ last_event = "spoke"
  /\ spoken = << <<TextSure>> >>
  /\ outbox = << >>

\* read_agent_response leaves its try block in this step (lines 382-386).
Clears == pc \in {"drain_clear", "poll_clear"} /\ pc' # pc

\* C4 (as stated): the read of the outbox and its clearing are atomic with
\* respect to the agent: every line the clearing erases is a line the same
\* call had read.
C4_AtomicReadAndClear ==
  [][(Clears /\ outbox' = << >>)
       => \A i \in 1..Len(outbox) : i <= Len(lines) /\ lines[i] = outbox[i]]_vars

\* C5 (as stated): audio is captured all the time: whenever time passes, in
\* transcription, in the wait for a reply or in speak as much as in
\* get_utterance, the step is one that captures the frame of that time.
C5_ContinuousCapture ==
  [][now' > now => pc = "capture" /\ now' = now + 1]_vars

\* read_agent_response is entered in this step (lines 375-381).
Reads == pc \in {"drain", "poll"} /\ pc' # pc

\* C6: a call of read_agent_response reads the lines the agent wrote; when
\* that is one reply and the file can be emptied, the call returns exactly
\* its text and leaves the outbox empty, so that after a round was posted and
\* the agent wrote once main holds the text written; and a call that finds
\* the outbox empty (the very next one, unless the agent wrote again)
\* returns None.
C6_RoundTrip ==
  [][/\ (Reads /\ outbox_file = "ok" /\ outbox # << >>) => lines' = outbox
     /\ (Clears /\ Len(lines) = 1 /\ lines[1].kind = "reply"
           /\ outbox_file # "unreadable")
          => agent_resp' = <<lines[1].text>> /\ outbox' = << >>
     /\ (pc' = "answer" /\ agent_writes' = 1)
          => agent_resp' = <<ReplyText(1)>> /\ outbox' = << >>
     /\ (Reads /\ outbox = << >>)
          => agent_resp' = NoneVal /\ outbox' = << >>]_vars

\* A round was posted, the agent wrote once, the poll returned the text (it
\* was spoken) and the call after that returned None.
C6_Witness ==
  /\ agent_writes = 1
  /\ written_at # NoneVal
  /\ written_at[1] = "poll"
  /\ inbox # << >>
  /\ spoken = <<Sentences(ReplyText(1))>>
  /\ last_event = "drained"
  /\ agent_resp = NoneVal

\* C7: when the lines read from the outbox are two or more and the last is a
\* reply, read_agent_response returns the text of that last line, not the
\* text of an earlier one, and empties the outbox: nothing of the earlier
\* lines is left for this call or a later one to return.
C7_LastWriteWins ==
  [][(Clears /\ Len(lines) >= 2 /\ lines[Len(lines)].kind = "reply")
       => /\ agent_resp' = <<lines[Len(lines)].text>>
          /\ \A i \in 1..(Len(lines) - 1) : agent_resp' # <<lines[i].text>>
          /\ outbox' = << >>
          /\ lines' = << >>]_vars

\* The agent wrote two replies before main's poll; the poll returned the
\* second, the outbox is empty and the first was never spoken.
C7_Witness ==
  /\ pc = "answer"
  /\ agent_writes = 2
  /\ agent_resp = <<ReplyText(2)>>
  /\ spoken = << >>
  /\ outbox = << >>

\* main goes on from this call of read_agent_response as it does when no
\* reply has been written yet: agent_resp is None, and main listens (call of
\* line 484) or sleeps before the next poll, or gives the round up after the
\* last one (call of line 517); the outbox is left as it is.
NoReplyYet ==
  /\ agent_resp' = NoneVal
  /\ pc' = IF pc \in {"drain", "drain_clear"} THEN "listen"
           ELSE IF polls + 1 >= ReplyPolls THEN "drain" ELSE "sleep"
  /\ polls' = IF pc \in {"drain", "drain_clear"} THEN polls ELSE polls + 1
  /\ outbox' = outbox
  /\ outbox_file' = outbox_file

\* C8: read_agent_response never raises: when the outbox is missing, empty
\* or unreadable, or its last line is malformed, the call returns None and
\* main continues exactly as for "no reply yet".
C8_PollNeverRaises ==
  [][/\ (Reads /\ (outbox_file \in {"missing", "unreadable"} \/ outbox = << >>))
          => NoReplyYet
     /\ (Clears /\ (lines[Len(lines)].kind = "malformed"
                     \/ outbox_file = "unreadable"))
          => NoReplyYet
     /\ (Reads \/ Clears) => pc' \notin {"crashed", "stopped"}]_vars

\* A poll of the round found a malformed last line and returned None; main
\* is about to sleep before its next poll.
C8_Witness ==
  /\ pc = "sleep"
  /\ last_event = "polled"
  /\ polls >= 1
  /\ agent_resp = NoneVal
  /\ outbox # << >>
  /\ outbox[Len(outbox)].kind = "malformed"

\* C9: once main has started (its clearing of the files done), every step
\* leaves the inbox as it is or appends exactly one complete line, the line
\* of the utterance just transcribed and of the round just counted, to its
\* end: no line that was in the inbox is modified, removed or truncated.
C9_InboxAppendOnly ==
  [][pc # "start"
       => \/ inbox' = inbox
          \/ /\ Len(inbox') = Len(inbox) + 1
             /\ SubSeq(inbox', 1, Len(inbox)) = inbox
             /\ inbox'[Len(inbox')]
                  = [type |-> "heard", text |-> text, round |-> round_num + 1]]_vars

\* A second round has been posted behind the line of the first.
C9_Witness ==
  /\ last_event = "posted"
  /\ Len(inbox) = 2
  /\ inbox[1].round = 1
  /\ inbox[2].round = 2

\* C10: when main, past the self-interruption check, cannot open the inbox,
\* the failure is not silent (the exception leaves main and the process
\* ends with its traceback), nothing is written, and the round is abandoned:
\* no step follows, so main neither waits for a reply nor speaks one.
C10_FailedWriteFatal ==
  [][/\ (pc = "post" /\ pc' # pc /\ ~inbox_ok
           /\ now - last_speak_time >= SelfInterruptWindow)
          => pc' = "crashed" /\ last_event' = "traceback" /\ inbox' = inbox
     /\ pc # "crashed"]_vars

\* The inbox could not be written and main has ended with the traceback.
C10_Witness ==
  /\ pc = "crashed"
  /\ last_event = "traceback"
  /\ ~inbox_ok
  /\ round_num >= 1

\* A call of read_agent_response made in the reply wait returns in this step.
PollReturns == pc \in {"poll", "poll_clear"} /\ pc' \notin {"poll", "poll_clear"}

\* C11: when the last poll of round N's reply wait returns without a reply,
\* main logs the timeout of round N, speaks nothing, writes nothing to the
\* inbox (round N is not posted again) and is back at the top of its loop;
\* and in a run in which the agent never wrote, nothing at all was spoken
\* and the round is in the inbox once.
C11_ReplyTimeout ==
  [][/\ (PollReturns /\ polls' = ReplyPolls /\ ~Truthy(agent_resp'))
          => /\ last_event' = "timeout"
             /\ last_round' = [last_round EXCEPT !.wait = "timeout"]
             /\ last_round.round = round_num
             /\ pc' = "drain"
             /\ spoken' = spoken
             /\ inbox' = inbox
             /\ round_num' = round_num
     /\ (agent_writes' = 0 /\ last_event' = "timeout")
          => /\ spoken' = << >>
             /\ Len(SelectSeq(inbox', LAMBDA l : l.round = round_num')) = 1]_vars

\* Round 1 was posted, the agent never wrote, and the 30th poll has returned.
C11_Witness ==
  /\ last_event = "timeout"
  /\ polls = ReplyPolls
  /\ agent_writes = 0
  /\ round_num = 1
  /\ inbox # << >>
  /\ spoken = << >>

\* main is in the reply wait of a round (lines 515-519).
Waiting == pc \in {"sleep", "poll", "poll_clear"}

\* C12: in the reply wait every poll comes after a sleep of one second, the
\* wait is left for speak at the first poll that returns a reply, a poll
\* without a reply is followed by another sleep only while fewer than
\* ReplyPolls polls were made, the polls of a round never exceed ReplyPolls,
\* and the wait always ends.
C12_BoundedReplyWait ==
  /\ [](polls <= ReplyPolls)
  /\ [][/\ pc = "sleep" => pc' = "poll" /\ now' = now + PollSleepSec * TicksPerSec
        /\ PollReturns => polls' = polls + 1
        /\ (PollReturns /\ Truthy(agent_resp'))
             => pc' = "answer" /\ last_round'.wait = "reply"
        /\ (PollReturns /\ ~Truthy(agent_resp'))
             => pc' = IF polls' < ReplyPolls THEN "sleep" ELSE "drain"]_vars
  /\ (Waiting ~> ~Waiting)

\* The first poll of the round found nothing, the second returned the reply.
C12_Witness ==
  /\ pc = "answer"
  /\ polls = 2
  /\ last_round # NoneVal
  /\ last_round.wait = "reply"
  /\ Truthy(agent_resp)

\* The agent wrote its reply to round 1 after that round had timed out.
LateWritten ==
  /\ written_at = <<"drain", 1, ReplyPolls>>
  /\ last_round # NoneVal
  /\ last_round.wait = "timeout"

\* C13: a reply found by the call of read_agent_response at the top of the
\* loop is spoken and last_speak_time set to the time speak returned, before
\* main listens again; so a reply written after its round timed out, once
\* main has read it and emptied the outbox, has been spoken and
\* last_speak_time lies after the timeout.
C13_LateReply ==
  [][/\ (pc = "drain_clear" /\ pc' # pc /\ Truthy(agent_resp'))
          => pc' = "speak_late"
     /\ pc = "speak_late"
          => /\ pc' \in {"speak_late", "listen"}
             /\ pc' = "listen"
                  => /\ spoken' = Append(spoken, Sentences(agent_resp[1]))
                     /\ last_speak_time' = now'
     /\ (LateWritten' /\ outbox' = << >> /\ pc' # "speak_late")
          => /\ spoken' = << <<TextSure>> >>
             /\ last_speak_time' > FirstTimeout]_vars

\* The late reply to round 1 has just been spoken.
C13_Witness ==
  /\ LateWritten
  /\ last_event = "spoke"
  /\ pc = "listen"
  /\ spoken = << <<TextSure>> >>
  /\ last_speak_time = now

\* C14: a round is posted only when the reply wait of the round posted
\* before it has ended, by a reply or by the timeout, and its utterance was
\* finalized after that round's; a round's wait is open only while main is
\* in the wait loop of that very round, so no two rounds ever await a reply.
C14_OneRoundInFlight ==
  [][/\ (Posts /\ last_round # NoneVal)
          => /\ last_round.wait \in {"reply", "timeout"}
             /\ utt_end > last_round.utt
             /\ round_num' > last_round.round
     /\ Posts => inbox'[Len(inbox')].round = round_num'
     /\ (last_round' # NoneVal /\ last_round'.wait = "open")
          => /\ pc' \in {"sleep", "poll", "poll_clear"}
             /\ last_round'.round = round_num'
             /\ inbox'[Len(inbox')].round = round_num']_vars

\* The first round was answered and spoken; the second has just been posted.
C14_Witness ==
  /\ last_event = "posted"
  /\ Len(inbox) = 2
  /\ spoken # << >>
  /\ last_round # NoneVal
  /\ last_round.wait = "open"
  /\ last_round.round = round_num

\* C15 (as stated): a shutdown signal stops the loop only at the end of an
\* iteration, when the round's reply has been spoken or its timeout logged
\* and main is back at the top of the loop; no iteration is cut short.
C15_GracefulShutdown ==
  [][pc' = "stopped" => pc = "drain"]_vars

\* C16 (as stated): a shutdown signal that arrives while main waits for a
\* reply, a poll of the outbox included, ends the wait and stops the loop,
\* and leaves the inbox as it is.
C16_CancellableWait ==
  [][(signals' > signals /\ Waiting) => pc' = "stopped" /\ inbox' = inbox]_vars

\* get_utterance, waiting for speech to start, captures a frame in this step.
CapturesIdle == pc = "capture" /\ speech_start = NoTime /\ now' = now + 1

\* C17: while every frame of a call of get_utterance is silence, the
\* segmenter stays idle (no speech start is marked) with an empty buffer and
\* counts the frame; it goes on capturing while the count is at most
\* MaxWaitChunks and returns None to main with the frame that takes the
\* count past MaxWaitChunks.
C17_AllSilence ==
  [][/\ (CapturesIdle /\ speech_start' = NoTime)
          => /\ audio_buffer = 0 /\ audio_buffer' = 0
             /\ wait_chunks' = wait_chunks + 1
             /\ IF wait_chunks' > MaxWaitChunks
                THEN pc' = "drain" /\ audio' = NoneVal /\ last_event' = "no_speech"
                ELSE pc' = "capture"
     /\ (pc' = "capture" /\ speech_start' = NoTime)
          => audio_buffer' = 0 /\ wait_chunks' <= MaxWaitChunks
     /\ last_event' = "no_speech"
          => /\ wait_chunks' = MaxWaitChunks + 1
             /\ speech_start' = NoTime
             /\ audio_buffer' = 0]_vars

\* A call of get_utterance heard silence only and has returned None.
C17_Witness ==
  /\ last_event = "no_speech"
  /\ pc = "drain"
  /\ audio = NoneVal
  /\ wait_chunks = MaxWaitChunks + 1
  /\ audio_buffer = 0

\* The frames of the scripted frame source that are speech.
SpeechFrames == Cardinality({i \in 1..Len(ScriptedFrames) : ScriptedFrames[i]})

\* C18 (as stated): for the scripted speech run (3 s, between MinSpeechSec and
\* MaxSpeechSec) followed by silence, the buffer get_utterance returns is at
\* most one frame longer or shorter than the speech run.
C18_UtteranceDuration ==
  audio # NoneVal
    => audio[1] - SpeechFrames <= 1 /\ SpeechFrames - audio[1] <= 1

\* C19 (as stated): in continuous speech get_utterance returns the buffer when
\* it holds MaxSpeechSec of audio, and the next utterance begins at once: from
\* the cut on, whenever time passes the frame of that time is captured.
C19_ForcedCut ==
  [][/\ (pc = "capture" /\ audio_buffer' >= MaxSpeechFrames)
          => pc' = "transcribe" /\ audio' = <<MaxSpeechFrames>>
     /\ (audio # NoneVal /\ audio[1] >= MaxSpeechFrames /\ now' > now)
          => pc = "capture"]_vars

Filtered == Strip(stub[1])

\* The latest step of main was the transcription of the stub's answer.
JustFiltered == stub # NoneVal /\ last_event = "transcribed"

\* The first n \div 2 words of ws are, word for word, the next n \div 2.
EqualHalves(ws) ==
  \A i \in 1..(Len(ws) \div 2) : ws[i] = ws[(Len(ws) \div 2) + i]

\* The text holds a phrase of the list when letter case is ignored.
HasPhrase(t) ==
  \E k \in 1..Len(Hallucinations) :
    LET h == Hallucinations[k]
    IN \E i \in 1..(Len(t) - Len(h) + 1) :
         \A j \in 1..Len(h) : LowerChar(t[i + j - 1]) = h[j]

\* C21: _filter_text returns "" for every text of more than 6 words whose
\* first half (the first n div 2 words) equals its second half (the next
\* n div 2 words) word for word; a text of 6 words or fewer comes back empty
\* only if it was empty or the list of known phrases removes it.
C21_HalfDuplication ==
  JustFiltered =>
    LET ws == Words(Filtered)
    IN /\ (Len(ws) > 6 /\ EqualHalves(ws)) => text = << >>
       /\ (Len(ws) <= 6 /\ Filtered # << >> /\ ~HasPhrase(Filtered))
            => text = Filtered

\* A repeated text of more than 6 words without any known phrase was
\* removed.
C21_Witness ==
  /\ JustFiltered
  /\ Len(Words(Filtered)) = 7
  /\ EqualHalves(Words(Filtered))
  /\ ~HasPhrase(Filtered)
  /\ text = << >>
  /\ pc = "drain"

\* C22: _filter_text returns "" exactly for the texts that are empty, are
\* removed by the half-duplication rule, or hold a phrase of the list (letter
\* case ignored) and have fewer than 10 words; every other text, those of 10
\* words or more that hold a phrase among them, is returned unchanged.
C22_KnownHallucination ==
  JustFiltered =>
    LET ws == Words(Filtered)
        repeated == Len(ws) > 6 /\ EqualHalves(ws)
    IN /\ (HasPhrase(Filtered) /\ Len(ws) < 10) => text = << >>
       /\ (Filtered # << >> /\ ~repeated /\ ~(HasPhrase(Filtered) /\ Len(ws) < 10))
            => text = Filtered
       /\ text \in {<< >>, Filtered}

\* A text of 10 words with a phrase of the list in capitals came through,
\* and was posted.
C22_Witness ==
  /\ last_event = "posted"
  /\ stub # NoneVal
  /\ Len(Words(Filtered)) = 10
  /\ HasPhrase(Filtered)
  /\ ~Contains(Filtered, Hallucinations[4])
  /\ text = Filtered

\* C23: _filter_text applied to its own result returns that result, for
\* every text; "" is mapped to "".
C23_FilterIdempotent ==
  JustFiltered =>
    /\ FilterText(text) = text
    /\ Filtered = << >> => text = << >>
    /\ FilterText(<< >>) = << >>

\* A text the filter let through, and an empty one, have been filtered.
C23_Witness ==
  /\ JustFiltered
  /\ text # << >>
  /\ Len(Words(text)) > 6
  /\ FilterText(text) = text

\* C24: every line main appends to the inbox carries the transcript of the
\* utterance, which is not empty and has 2 words or more; when the transcript
\* is empty or has fewer than 2 words, main goes back to the top of its loop
\* and the inbox is as it was.
C24_OnlyActionablePosted ==
  /\ [](pc # "start" =>
          \A i \in 1..Len(inbox) :
            inbox[i].text # << >> /\ Len(Words(inbox[i].text)) >= 2)
  /\ [][/\ Posts => /\ inbox'[Len(inbox')].text = text
                     /\ text # << >>
                     /\ Len(Words(text)) >= 2
        /\ (pc = "transcribe" /\ pc' # pc
              /\ (text' = << >> \/ Len(Words(text')) < 2))
             => pc' = "drain" /\ inbox' = inbox /\ round_num' = round_num]_vars

\* A transcript of one word was dropped: nothing is in the inbox.
C24_Witness ==
  /\ last_event = "transcribed"
  /\ Len(Words(text)) = 1
  /\ pc = "drain"
  /\ inbox = << >>

\* speak has just split the reply.
JustSplit == last_event = "speaking"

\* The chunks, one after the other with nothing in between.
RECURSIVE Flat(_)
Flat(chunks) == IF chunks = << >> THEN << >> ELSE Head(chunks) \o Flat(Tail(chunks))

\* s is the chunks in order with one or more spaces between each two.
RECURSIVE Rebuilds(_, _)
Rebuilds(s, chunks) ==
  LET c == Head(chunks)
      rest == SubSeq(s, Len(c) + 1, Len(s))
  IN /\ Len(s) >= Len(c)
     /\ SubSeq(s, 1, Len(c)) = c
     /\ IF Len(chunks) = 1 THEN rest = << >>
        ELSE /\ rest # << >>
             /\ rest[1] = " "
             /\ Rebuilds(LStrip(rest), Tail(chunks))

\* c is a chunk in full: it has a character, neither starts nor ends with
\* a space, and no '.', '!' or '?' inside it is followed by a space.
WholeChunk(c) ==
  /\ c # << >>
  /\ c[1] # " "
  /\ c[Len(c)] # " "
  /\ \A i \in 1..(Len(c) - 1) : c[i] \in {".", "!", "?"} => c[i + 1] # " "

InSpeak == last_event \in {"sentence", "spoke"}

\* The requests for synthesis among the first i events of the call.
Requests(i) == Cardinality({j \in 1..i : tts[j].ev = "generating"})

\* The last thing a turn of the loop prints: "Played sentence" or the error.
EndsChunk(e) == e.ev \in {"played", "error"}

\* C26: within one speak call the k-th request for synthesis is for the
\* k-th chunk of the reply; whatever is printed or played belongs to the
\* chunk requested last; and a request that is not the first comes right
\* after the previous chunk was played to its end or failed.  Each turn of
\* the loop takes the first of the remaining chunks and no other.
C26_SequentialPlayback ==
  /\ [](InSpeak =>
          LET chunks == Sentences(agent_resp[1])
          IN /\ Requests(Len(tts)) + Len(sentences) = Len(chunks)
             /\ \A i \in 1..Len(tts) :
                  /\ Requests(i) >= 1
                  /\ tts[i].chunk = chunks[Requests(i)]
                  /\ (tts[i].ev = "generating" /\ i > 1) => EndsChunk(tts[i - 1]))
  /\ [][(sentences # << >> /\ tts' # tts)
          => /\ sentences' = Tail(sentences)
             /\ Len(tts') > Len(tts)
             /\ SubSeq(tts', 1, Len(tts)) = tts
             /\ tts'[Len(tts) + 1] = TtsEvent("generating", Head(sentences))
             /\ \A i \in (Len(tts) + 1)..Len(tts') :
                  tts'[i].chunk = Head(sentences)]_vars

\* A reply of three chunks has been worked through, each chunk requested
\* after the one before it was played.
C26_Witness ==
  /\ last_event = "spoke"
  /\ Len(Sentences(agent_resp[1])) = 3
  /\ Requests(Len(tts)) = 3
  /\ Cardinality({i \in 1..Len(tts) : tts[i].ev = "sound"}) = 3

\* The chunk a turn of the loop took did not sound in the sink.
ChunkFails ==
  /\ sentences # << >>
  /\ tts' # tts
  /\ \A i \in (Len(tts) + 1)..Len(tts') : tts'[i].ev # "sound"

Sounded(k) == \E i \in 1..Len(tts) : tts[i].ev = "sound" /\ Requests(i) = k

\* The chunks that have sounded are the first ones of the call: no chunk
\* was requested after one that did not sound.
SoundIsPrefix ==
  \A i \in 2..Len(tts) : tts[i].ev = "generating" => Sounded(Requests(i) - 1)

\* C28 (as stated): in either program, once a chunk has failed no later
\* chunk is requested, so what has sounded is a prefix of the reply's chunks.
C28_TruncatedReply == SoundIsPrefix

\* C28: in speak_xtts of speak.py the exception of a failing chunk leaves
\* the call: the chunks after it are never requested, and what has sounded
\* is a prefix of the reply's chunks.  In speak of run_jimmy.py the chunks
\* after a failing one are requested all the same: when speak returns, every
\* chunk of the reply was requested and the chunks that did not fail have
\* sounded, whether or not a chunk before them failed.
C28_TruncatedOnlyInXtts ==
  /\ [](pc \in {"xtts_loop", "xtts_raised", "xtts_returned"}
          => /\ SoundIsPrefix
             /\ Requests(Len(tts)) + Len(sentences) = Len(XttsSentences(text))
             /\ \A k \in 1..Requests(Len(tts)) :
                  ~Sounded(k) => pc = "xtts_raised" /\ k = Requests(Len(tts)))
  /\ [][pc = "xtts_raised" => tts' = tts]_vars
  /\ [](last_event = "spoke" /\ pc = "drain"
          => Requests(Len(tts)) = Len(Sentences(agent_resp[1])))
  /\ [][(pc = "answer" /\ sentences # << >>
           /\ \E k \in 1..Requests(Len(tts)) : ~Sounded(k))
          => /\ Requests(Len(tts))' = Requests(Len(tts)) + 1
             /\ pc' \in {"answer", "drain"}]_vars

\* speak_xtts has raised at the second of three chunks: the first has
\* sounded, the third was never requested.
C28_Witness ==
  /\ pc = "xtts_raised"
  /\ Len(XttsSentences(text)) = 3
  /\ Requests(Len(tts)) = 2
  /\ Sounded(1)
  /\ ~Sounded(2)
  /\ Len(sentences) = 1

\* get_utterance has taken a frame in this step.
TakesFrame == pc = "capture" /\ now' = now + 1 /\ frame' # NoneVal

C30_ClassifierFallback ==
  /\ [](pc # "crashed")
  /\ [][(TakesFrame /\ frame'[1].by = "rms")
          => /\ SegmentFrame(RmsAboveThreshold(frame'[1].samples), frame'[1].len)
             /\ pc' \in {"capture", "drain", "transcribe"}]_vars

\* C31: once main has emptied the inbox, the rounds of its lines, in the
\* order the lines were appended, are positive and strictly increasing; a
\* line is appended with a round greater than that of every line before it.
C31_RoundIdsIncrease ==
  /\ [](pc # "start" =>
          /\ \A i \in 1..Len(inbox) : inbox[i].round >= 1
          /\ \A i \in 1..Len(inbox) : \A j \in 1..Len(inbox) :
               i < j => inbox[i].round < inbox[j].round)
  /\ [][Posts => \A i \in 1..Len(inbox) :
                   inbox[i].round < inbox'[Len(inbox')].round]_vars

\* Two rounds are in the inbox, the second with the greater id.
C31_Witness ==
  /\ Len(inbox) = 2
  /\ inbox[1].round >= 1
  /\ inbox[1].round < inbox[2].round
  /\ last_event = "posted"

\* C32 (as stated): an utterance discarded by the self-interruption check
\* leaves round_num as it was, round_num changes only in a step that
\* appends to the inbox, and the k-th line of the inbox carries round k.
C32_SuppressionKeepsRound ==
  /\ [][(pc = "post" /\ last_event' = "suppressed") => round_num' = round_num]_vars
  /\ [][(pc # "start" /\ round_num' # round_num) => Posts]_vars
  /\ [](pc # "start" => \A k \in 1..Len(inbox) : inbox[k].round = k)

\* has_speech's verdict on the frame captured last.
Heard == HasSpeech(frame[1].samples, frame[1].by = "silero")

\* get_utterance returns a buffer in this step.
Emits == pc = "capture" /\ pc' = "transcribe"

\* C33: while an utterance is accumulated, a frame with speech leaves
\* silence_start unset and only a frame without speech sets it, to the time
\* of that frame; once set it is not moved, so it marks the start of an
\* unbroken run of frames without speech.  A buffer shorter than
\* MAX_SPEECH_SEC is returned only on a frame without speech, when that run
\* has lasted SILENCE_TIMEOUT_SEC or longer and the buffer holds
\* MIN_SPEECH_SEC or more.
C33_SilenceHysteresis ==
  [][TakesFrame =>
       /\ (speech_start # NoTime /\ Heard') => silence_start' = NoTime
       /\ (silence_start = NoTime /\ silence_start' # NoTime)
            => ~Heard' /\ silence_start' = now' /\ speech_start # NoTime
       /\ (silence_start # NoTime /\ silence_start' # NoTime)
            => ~Heard' /\ silence_start' = silence_start
       /\ (Emits /\ audio'[1] < MaxSpeechFrames)
            => /\ ~Heard'
               /\ silence_start # NoTime
               /\ now' - silence_start >= SilenceTimeoutTicks
               /\ audio'[1] >= MinSpeechFrames]_vars

\* An utterance was returned on a frame without speech, more than
\* SILENCE_TIMEOUT_SEC after its closing silence began.
C33_Witness ==
  /\ last_event = "utterance"
  /\ frame # NoneVal
  /\ ~Heard
  /\ now - silence_start > SilenceTimeoutTicks
  /\ silence_start - speech_start >= 3
  /\ audio[1] = silence_start - speech_start + 1 + (now - silence_start)

\* The silence test of line 196 succeeds on the frame taken in this step,
\* with a buffer shorter than MIN_SPEECH_SEC.
SilenceFiresTooShort ==
  /\ TakesFrame
  /\ speech_start # NoTime
  /\ ~Heard'
  /\ silence_start # NoTime
  /\ now' - silence_start > SilenceTimeoutTicks
  /\ audio_buffer + frame'[1].len < MinSpeechFrames

\* C34: when the silence test succeeds with a buffer shorter than
\* MIN_SPEECH_SEC, get_utterance empties the buffer, unsets speech_start and
\* silence_start, sets wait_chunks to 0 and goes on capturing without
\* returning anything; a buffer never holds more than the frames captured
\* since its own speech_start, so the frames thrown away are in no later
\* utterance.
C34_NoiseBlipDiscard ==
  /\ [][SilenceFiresTooShort
          => /\ audio_buffer' = 0
             /\ speech_start' = NoTime
             /\ silence_start' = NoTime
             /\ wait_chunks' = 0
             /\ pc' = "capture"
             /\ audio' = audio]_vars
  /\ []((pc = "capture" /\ speech_start # NoTime)
          => audio_buffer <= now - speech_start + 1)
  /\ []((pc = "capture" /\ speech_start = NoTime) => audio_buffer = 0)
  /\ [][Emits => audio'[1] <= now' - speech_start + 1]_vars

\* One frame of speech was followed by frames without a sample until the
\* silence test succeeded: the buffer of half a second has been thrown away
\* and get_utterance waits for speech again.
C34_Witness ==
  /\ pc = "capture"
  /\ last_event = "frame"
  /\ frame # NoneVal
  /\ frame[1].samples = "empty"
  /\ speech_start = NoTime
  /\ silence_start = NoTime
  /\ wait_chunks = 0
  /\ audio_buffer = 0

\* C35: audio_buffer never holds more than MAX_SPEECH_SEC of audio, and
\* while get_utterance goes on capturing it holds less; the frame that
\* brings a buffer in progress to MAX_SPEECH_SEC is the last one of the
\* call, which returns the buffer with that frame in it, whether or not a
\* silence is being timed.
C35_BoundedBuffer ==
  /\ [](audio_buffer < MaxSpeechFrames + 1)
  /\ []((pc = "capture" /\ last_event = "frame")
          => audio_buffer < MaxSpeechFrames)
  /\ [][(/\ TakesFrame
          /\ speech_start # NoTime
          /\ audio_buffer + frame'[1].len >= MaxSpeechFrames)
          => /\ Emits
             /\ audio' = <<audio_buffer + frame'[1].len>>
             /\ audio_buffer' = audio'[1]]_vars

\* The buffer was returned at MAX_SPEECH_SEC on a quiet frame, while a
\* silence that had not yet lasted SILENCE_TIMEOUT_SEC was being timed.
C35_Witness ==
  /\ last_event = "utterance"
  /\ audio = <<MaxSpeechFrames>>
  /\ frame # NoneVal
  /\ ~Heard
  /\ silence_start # NoTime
  /\ now - silence_start <= SilenceTimeoutTicks

\* The frames a call of get_utterance takes when every frame is
\* CAPTURE_CHUNK_SEC long: at most max_wait frames without speech before
\* the first frame with speech, and MAX_SPEECH_SEC of frames from that one
\* on.
MaxCallFrames == MaxWaitChunks + MaxSpeechFrames

\* C36 (as stated): each call of get_utterance returns after a bounded
\* number of frames: while the call is capturing it has taken fewer than
\* MaxCallFrames frames.
C36_CallReturns == [](pc = "capture" => taken < MaxCallFrames)

\* C37: a buffer get_utterance returns holds at least MIN_SPEECH_SEC of
\* audio, whether the silence test or the length test returned it, so it is
\* never empty; and its first frame is one has_speech found speech in: an
\* empty buffer takes a frame only when it has speech, and from then on
\* frames are appended behind it until the whole buffer is returned or
\* thrown away.
C37_MinimumUtterance ==
  /\ [](audio # NoneVal => audio[1] >= MinSpeechFrames /\ audio[1] > 0)
  /\ [][Emits => /\ audio'[1] >= MinSpeechFrames
                 /\ audio'[1] = audio_buffer'
                 /\ speech_start # NoTime
                 /\ speech_start' = speech_start]_vars
  /\ [][(TakesFrame /\ audio_buffer = 0 /\ audio_buffer' > 0)
          => /\ Heard'
             /\ speech_start = NoTime
             /\ speech_start' = now']_vars
  /\ [][(TakesFrame /\ audio_buffer > 0)
          => \/ /\ audio_buffer' = audio_buffer + frame'[1].len
                /\ speech_start' = speech_start
             \/ /\ audio_buffer' = 0
                /\ speech_start' = NoTime
                /\ ~Emits]_vars

\* The silence test returned a buffer of exactly MIN_SPEECH_SEC: its first
\* frame had speech, the frames after it had no sample but the last.
C37_Witness ==
  /\ last_event = "utterance"
  /\ audio = <<MinSpeechFrames>>
  /\ frame # NoneVal
  /\ ~Heard
  /\ frame[1].len = 1
  /\ now - silence_start > SilenceTimeoutTicks
  /\ silence_start = speech_start + 1

\* How many times main has spoken the text t, sentence by sentence.
TimesSpoken(t) ==
  Cardinality({i \in 1..Len(spoken) : spoken[i] = Sentences(t)})

\* C38: the agent writes each of its replies once, the k-th with the text
\* ReplyText(k); whatever main reads at the top of the loop and in the polls
\* of its rounds, it speaks no reply twice, and none the agent has not
\* written.
C38_AtMostOnce ==
  \A k \in 1..Len(ReplyTexts) :
    TimesSpoken(ReplyTexts[k]) <= IF k <= agent_writes THEN 1 ELSE 0

\* main has spoken the agent's first reply and has since read the outbox at
\* the top of the loop, where it found nothing.
C38_Witness ==
  /\ spoken = <<Sentences(ReplyText(1))>>
  /\ TimesSpoken(ReplyText(1)) = 1
  /\ agent_writes = 1
  /\ last_event = "drained"
  /\ agent_resp = NoneVal
  /\ outbox = << >>
  /\ outbox_file = "ok"

\* read_agent_response has read lines and is about to parse the last one.
AboutToParse == pc \in {"drain_clear", "poll_clear"} /\ pc' # pc

\* The last line of ls is no JSON.
NoJson(ls) == ls # << >> /\ LastLine(ls).kind = "malformed"

\* read_agent_response opens an outbox whose last line is no JSON.
OpensMalformed ==
  /\ pc \in {"drain", "poll"}
  /\ pc' # pc
  /\ outbox_file = "ok"
  /\ NoJson(outbox)

\* C39: when the last line read_agent_response has read is no JSON, it
\* returns None and writes nothing to the outbox; and an outbox whose last
\* line is no JSON is read as it is, with that line last, by every call, so
\* each call returns None for as long as the file stays as it is.
C39_MalformedLeftInPlace ==
  /\ [][(AboutToParse /\ NoJson(lines))
          => /\ agent_resp' = NoneVal
             /\ outbox' = outbox
             /\ outbox_file' = outbox_file
             /\ pc' \notin {"answer", "speak_late"}]_vars
  /\ [][OpensMalformed
          => /\ lines' = outbox
             /\ outbox' = outbox
             /\ pc' \in {"drain_clear", "poll_clear"}]_vars
  /\ [][(AboutToParse /\ Truthy(agent_resp')) => ~NoJson(lines)]_vars

\* The agent wrote a line that is no JSON before the first poll of a round;
\* two polls have returned None since, and the line is still in the
\* outbox.
C39_Witness ==
  /\ pc = "sleep"
  /\ polls = 2
  /\ agent_resp = NoneVal
  /\ agent_writes = 1
  /\ written_at # NoneVal
  /\ written_at[3] = 0
  /\ outbox = <<MalformedLine>>
  /\ outbox_file = "ok"

\* speak returns to main in this step, lines 487-489 and 523-525.
SpeakReturns ==
  /\ pc \in {"speak_late", "answer"}
  /\ pc' \in {"listen", "drain"}

\* C40: main sets last_speak_time to the current time when a speak call
\* returns, whatever became of the sentences of the call, and nowhere else:
\* no step of get_utterance, of the transcription, of the mailbox or of the
\* agent changes it.
C40_StampFollowsSpeak ==
  /\ [][SpeakReturns => last_speak_time' = now']_vars
  /\ [][last_speak_time' # last_speak_time => SpeakReturns]_vars
  /\ [][pc \notin {"speak_late", "answer"}
          => last_speak_time' = last_speak_time]_vars

\* A speak call has returned in which no sentence was played, and
\* last_speak_time is the time of its return.
C40_Witness ==
  /\ last_event = "spoke"
  /\ last_speak_time = now
  /\ tts # << >>
  /\ \A i \in 1..Len(tts) : tts[i].ev # "played"
  /\ \E i \in 1..Len(tts) : tts[i].ev = "error"

====
